---------------------------- MODULE Spec2Model ----------------------------
(***************************************************************************)
(* ACDSYN configuration management (src/config.py): the credential loader  *)
(* FirebaseConfig.from_env, MLConfig.is_valid, SystemConfig.__post_init__  *)
(* and the lazily constructed ConfigManager singleton with its override    *)
(* step, validate() and to_dict().                                         *)
(*                                                                         *)
(* Python values are modelled as tagged records so that values of          *)
(* different Python types can be compared:                                 *)
(*   - an optional string is [some |-> BOOLEAN, s |-> STRING];             *)
(*   - a text whose characters matter (the threshold variable, the private *)
(*     key) is a sequence of one-character tokens;                         *)
(*   - a number is [kind |-> "num", num |-> n, den |-> d] (the rational    *)
(*     n/d, d a power of ten), the float NaN is kind "nan", and Python's   *)
(*     None stored in a numeric field is kind "none".                      *)
(***************************************************************************)
EXTENDS Integers, Sequences, FiniteSets, TLC

VARIABLES
    env,        \* os.environ and the file system, fixed for the process
    instance,   \* ConfigManager._instance: 0 is None, else an object id
    heap,       \* the ConfigManager objects allocated so far, by id
    pc,         \* per caller: position inside ConfigManager.__new__
    self,       \* per caller: the object _initialize was invoked on
    calls,      \* per caller: number of ConfigManager() calls started
    returned,   \* history: what each finished call handed to its caller
    initRuns,   \* history: number of times _initialize was entered
    log,        \* the logging records emitted so far (a set of tags)
    out,        \* outcome of the last validate()/to_dict()/from_env()
    sc          \* a stand-alone SystemConfig and the outcome of its check

vars == <<env, instance, heap, pc, self, calls, returned, initRuns, log, out, sc>>

----------------------------------------------------------------------------
(* Bounds of the model *)

\* longest value of ACDSYN_SYNERGY_THRESHOLD that is enumerated
MaxLen == 3
\* longest value of FIREBASE_PRIVATE_KEY that is enumerated
MaxKeyLen == 2
\* ConfigManager() calls each caller makes
MaxCalls == 2

Threads == {"t1", "t2"}

----------------------------------------------------------------------------
(* Values *)

NoStr == [some |-> FALSE, s |-> ""]
Str(x) == [some |-> TRUE, s |-> x]
NoText == [some |-> FALSE, s |-> <<>>]
Text(x) == [some |-> TRUE, s |-> x]

Num(n, d) == [kind |-> "num", num |-> n, den |-> d]
NaN == [kind |-> "nan", num |-> 0, den |-> 1]
NoneNum == [kind |-> "none", num |-> 0, den |-> 1]

\* a <= b on Python values: "T", "F", or "TypeError" when one side is None
PyLe(a, b) ==
    IF a.kind = "none" \/ b.kind = "none" THEN "TypeError"
    ELSE IF a.kind = "nan" \/ b.kind = "nan" THEN "F"
    ELSE IF a.num * b.den <= b.num * a.den THEN "T" ELSE "F"

\* lo <= x <= hi, chained as Python chains it (the second test is skipped
\* when the first is false)
PyBetween(lo, x, hi) ==
    LET first == PyLe(lo, x)
    IN  IF first = "T" THEN PyLe(x, hi) ELSE first

\* n > 0 for an int field that may hold None
PyPositive(n) ==
    IF n.kind = "none" THEN "TypeError"
    ELSE IF n.kind = "nan" THEN "F"
    ELSE IF n.num > 0 THEN "T" ELSE "F"

\* equality of two Python numbers (NaN differs from everything)
NumEq(a, b) ==
    /\ a.kind = "num"
    /\ b.kind = "num"
    /\ a.num * b.den = b.num * a.den

RECURSIVE SeqsUpTo(_, _)
SeqsUpTo(S, n) ==
    IF n = 0 THEN {<<>>}
    ELSE LET shorter == SeqsUpTo(S, n - 1)
         IN  shorter \cup {Append(s, c) : s \in shorter, c \in S}

----------------------------------------------------------------------------
(* float(str), restricted to the characters the model enumerates *)

FloatChars == {"0", "1", ".", "-", "n", "a"}
Digits == {"0", "1"}

DigitVal(c) == IF c = "1" THEN 1 ELSE 0

RECURSIVE DigitsVal(_)
DigitsVal(s) ==
    IF s = <<>> THEN 0
    ELSE 10 * DigitsVal(SubSeq(s, 1, Len(s) - 1)) + DigitVal(s[Len(s)])

RECURSIVE Pow10(_)
Pow10(n) == IF n = 0 THEN 1 ELSE 10 * Pow10(n - 1)

AllDigits(s) == \A i \in 1..Len(s) : s[i] \in Digits

DotPositions(s) == {i \in 1..Len(s) : s[i] = "."}

ParseFailed == [ok |-> FALSE, val |-> NaN]

\* the unsigned part of a float literal: digits, with at most one point and
\* at least one digit, or the word nan
ParseUnsigned(s) ==
    IF s = <<"n", "a", "n">> THEN [ok |-> TRUE, val |-> NaN]
    ELSE IF Cardinality(DotPositions(s)) > 1 THEN ParseFailed
    ELSE LET dot == IF DotPositions(s) = {} THEN Len(s) + 1
                    ELSE CHOOSE i \in DotPositions(s) : TRUE
             whole == SubSeq(s, 1, dot - 1)
             frac == SubSeq(s, dot + 1, Len(s))
         IN  IF ~AllDigits(whole) \/ ~AllDigits(frac) THEN ParseFailed
             ELSE IF Len(whole) + Len(frac) = 0 THEN ParseFailed
             ELSE [ok |-> TRUE,
                   val |-> Num(DigitsVal(whole \o frac), Pow10(Len(frac)))]

Negate(v) == IF v.kind = "num" THEN Num(0 - v.num, v.den) ELSE v

\* float(s): ok is FALSE where Python raises ValueError
ParseFloat(s) ==
    IF s # <<>> /\ s[1] = "-"
    THEN LET r == ParseUnsigned(Tail(s))
         IN  [ok |-> r.ok, val |-> Negate(r.val)]
    ELSE ParseUnsigned(s)

----------------------------------------------------------------------------
(* FirebaseConfig.from_env *)

FbFields == {"project_id", "private_key_id", "private_key", "client_email", "client_id"}
PlainFields == FbFields \ {"private_key"}

TokenUri == "https://oauth2.googleapis.com/token"

\* characters of a private key: bs is a backslash, nl a real newline
KeyChars == {"k", "bs", "n", "nl"}

\* str.replace('\\n', '\n'): every backslash followed by n becomes a newline,
\* scanning left to right
RECURSIVE ReplaceEscapes(_)
ReplaceEscapes(s) ==
    IF s = <<>> THEN <<>>
    ELSE IF Len(s) >= 2 /\ s[1] = "bs" /\ s[2] = "n"
         THEN <<"nl">> \o ReplaceEscapes(SubSeq(s, 3, Len(s)))
         ELSE <<s[1]>> \o ReplaceEscapes(Tail(s))

\* the value the credential file holds under a key
FilePlain(k) == "file:" \o k
FileKey == <<"k", "nl", "k">>
\* the value of the environment variable FIREBASE_<K>
EnvPlain(k) == "env:" \o k

\* dict.get(k) on the parsed credential file: None for a missing key
JsonGetPlain(e, k) == IF k \in e.keys THEN Str(FilePlain(k)) ELSE NoStr
JsonGetKey(e) == IF "private_key" \in e.keys THEN Text(FileKey) ELSE NoText

\* os.getenv("FIREBASE_<K>", "")
GetenvPlain(e, k) == IF k \in e.vars THEN Str(EnvPlain(k)) ELSE Str("")
GetenvKey(e) == IF "private_key" \in e.vars THEN e.pk ELSE <<>>

Creds(pid, kid, key, email, cid) ==
    [project_id |-> pid, private_key_id |-> kid, private_key |-> key,
     client_email |-> email, client_id |-> cid, token_uri |-> TokenUri]

NoCreds == [some |-> FALSE, c |-> Creds(NoStr, NoStr, NoText, NoStr, NoStr)]
SomeCreds(c) == [some |-> TRUE, c |-> c]

\* line 30 without the exists() test
UsesFileUnchecked(e) == e.path = "set"

\* service_account_path and Path(service_account_path).exists()
UsesFile(e) == e.path = "set" /\ e.file # "missing"

\* the body of the try block: the value returned, or raised = TRUE where an
\* exception leaves it (open() fails, json.load fails, creds has no .get)
FromEnvBody(e) ==
    IF UsesFile(e)
    THEN IF e.file = "object"
         THEN [raised |-> FALSE,
               val |-> SomeCreds(Creds(JsonGetPlain(e, "project_id"),
                                       JsonGetPlain(e, "private_key_id"),
                                       JsonGetKey(e),
                                       JsonGetPlain(e, "client_email"),
                                       JsonGetPlain(e, "client_id")))]
         ELSE [raised |-> TRUE, val |-> NoCreds]
    ELSE [raised |-> FALSE,
          val |-> SomeCreds(Creds(GetenvPlain(e, "project_id"),
                                  GetenvPlain(e, "private_key_id"),
                                  Text(ReplaceEscapes(GetenvKey(e))),
                                  GetenvPlain(e, "client_email"),
                                  GetenvPlain(e, "client_id")))]

\* from_env: except Exception turns a raise into a warning and None
FromEnv(e) ==
    LET r == FromEnvBody(e)
    IN  IF r.raised
        THEN [raised |-> FALSE, val |-> NoCreds, warned |-> TRUE]
        ELSE [raised |-> FALSE, val |-> r.val, warned |-> FALSE]

----------------------------------------------------------------------------
(* MLConfig *)

MLConfig ==
    [synergy_threshold |-> Num(7, 10),
     min_samples_per_domain |-> Num(10, 1),
     embedding_dimension |-> Num(128, 1),
     batch_size |-> Num(32, 1),
     learning_rate |-> Num(1, 1000),
     epochs |-> Num(100, 1)]

\* is_valid without the synergy-threshold test of line 67
IsValidCountsOnly(ml) ==
    LET t2 == PyPositive(ml.min_samples_per_domain)
        t3 == PyPositive(ml.embedding_dimension)
    IN  IF t2 # "T" THEN t2 ELSE t3

\* the three tests of is_valid joined by 'and': the first that is not true
\* decides ("F"), and a comparison with None raises ("TypeError")
IsValid(ml) ==
    LET t1 == PyBetween(Num(0, 1), ml.synergy_threshold, Num(1, 1))
        t2 == PyPositive(ml.min_samples_per_domain)
        t3 == PyPositive(ml.embedding_dimension)
    IN  IF t1 # "T" THEN t1 ELSE IF t2 # "T" THEN t2 ELSE t3

----------------------------------------------------------------------------
(* SystemConfig *)

ValidModes == {"adaptive", "conservative", "aggressive"}

SystemFields(mode, rate) ==
    [execution_mode |-> mode,
     max_concurrent_tasks |-> Num(5, 1),
     heartbeat_interval |-> Num(60, 1),
     log_level |-> "INFO",
     log_retention_days |-> Num(30, 1),
     evolution_cycle_hours |-> Num(24, 1),
     mutation_rate |-> rate,
     survival_threshold |-> Num(8, 10)]

\* __post_init__ without the mutation-rate test of lines 95-96
PostInitModeOnly(s) ==
    IF s.execution_mode \notin ValidModes
    THEN [outcome |-> "ValueError", cfg |-> s]
    ELSE [outcome |-> "ok", cfg |-> s]

\* __post_init__: outcome is "ok" or the exception that leaves it; cfg is
\* the object's fields afterwards (the routine reads two fields and assigns
\* nothing)
PostInit(s) ==
    IF s.execution_mode \notin ValidModes
    THEN [outcome |-> "ValueError", cfg |-> s]
    ELSE LET inRange == PyBetween(Num(0, 1), s.mutation_rate, Num(1, 1))
         IN  IF inRange = "TypeError" THEN [outcome |-> "TypeError", cfg |-> s]
             ELSE IF inRange = "F" THEN [outcome |-> "ValueError", cfg |-> s]
             ELSE [outcome |-> "ok", cfg |-> s]

\* SystemConfig(execution_mode=mode, mutation_rate=rate): the generated
\* __init__ stores the fields and then runs __post_init__; made is FALSE
\* when the constructor raises and no object results
NewSystemConfig(mode, rate) ==
    LET r == PostInit(SystemFields(mode, rate))
    IN  [made |-> r.outcome = "ok", cfg |-> r.cfg, outcome |-> r.outcome]

\* SystemConfig() with the defaults of lines 76-87
SystemConfig == SystemFields("adaptive", Num(1, 10))

----------------------------------------------------------------------------
(* ConfigManager: the object and its methods *)

\* object.__new__(cls): an instance with no attribute set yet
NewObject ==
    [attrs |-> {}, firebase |-> NoCreds, ml |-> MLConfig, system |-> SystemConfig,
     overridden |-> FALSE]

\* the instance has been through the whole of _initialize
Ready(o) == o.attrs = {"firebase", "ml", "system"} /\ o.overridden

\* lines 120-122 without the membership test
OverrideModeUnchecked(s, e) ==
    IF e.mode.some THEN [s EXCEPT !.execution_mode = e.mode.s] ELSE s

\* lines 125-130 with a range check added: a parsed value outside [0,1] is
\* dropped
OverrideThresholdInRange(ml, e) ==
    IF e.threshold.some /\ e.threshold.s # <<>>
    THEN LET r == ParseFloat(e.threshold.s)
         IN  IF r.ok /\ PyBetween(Num(0, 1), r.val, Num(1, 1)) = "T"
             THEN [ml |-> [ml EXCEPT !.synergy_threshold = r.val], warned |-> FALSE]
             ELSE [ml |-> ml, warned |-> ~r.ok]
    ELSE [ml |-> ml, warned |-> FALSE]

\* lines 120-122: the execution-mode override applied to the system config
OverrideMode(s, e) ==
    IF e.mode.some /\ e.mode.s \in ValidModes
    THEN [s EXCEPT !.execution_mode = e.mode.s]
    ELSE s

\* lines 125-130: the synergy-threshold override applied to the ml config;
\* warned is the logging.warning of the except branch
OverrideThreshold(ml, e) ==
    IF e.threshold.some /\ e.threshold.s # <<>>
    THEN LET r == ParseFloat(e.threshold.s)
         IN  IF r.ok
             THEN [ml |-> [ml EXCEPT !.synergy_threshold = r.val], warned |-> FALSE]
             ELSE [ml |-> ml, warned |-> TRUE]
    ELSE [ml |-> ml, warned |-> FALSE]

\* the body of validate's try block: the value returned or the exception
\* raised, and the records logged on the way
ValidateBody(o) ==
    IF "firebase" \notin o.attrs
    THEN [raised |-> "AttributeError", val |-> FALSE, logs |-> {}]
    ELSE LET l1 == IF o.firebase.some THEN {} ELSE {"warning:firebase not found"}
         IN  IF "ml" \notin o.attrs
             THEN [raised |-> "AttributeError", val |-> FALSE, logs |-> l1]
             ELSE IF IsValid(o.ml) = "TypeError"
             THEN [raised |-> "TypeError", val |-> FALSE, logs |-> l1]
             ELSE IF IsValid(o.ml) = "F"
             THEN [raised |-> "", val |-> FALSE,
                   logs |-> l1 \cup {"error:invalid ml configuration"}]
             ELSE IF "system" \notin o.attrs
             THEN [raised |-> "AttributeError", val |-> FALSE, logs |-> l1]
             ELSE IF PostInit(o.system).outcome # "ok"
             THEN [raised |-> PostInit(o.system).outcome, val |-> FALSE, logs |-> l1]
             ELSE [raised |-> "", val |-> TRUE, logs |-> l1]

\* validate without its except clause: the exception reaches the caller
ValidateUncaught(o) ==
    LET r == ValidateBody(o)
    IN  [raised |-> r.raised, val |-> r.val, logs |-> r.logs]

\* validate: except Exception logs the error and returns False
Validate(o) ==
    LET r == ValidateBody(o)
    IN  IF r.raised # ""
        THEN [raised |-> "", val |-> FALSE,
              logs |-> r.logs \cup {"error:validation failed"}]
        ELSE [raised |-> "", val |-> r.val, logs |-> r.logs]

\* the "firebase" section with the key identifier added
ToDictFirebaseWithKeyId(o) ==
    [project_id |-> IF o.firebase.some THEN o.firebase.c.project_id ELSE NoStr,
     private_key_id |-> IF o.firebase.some THEN o.firebase.c.private_key_id ELSE NoStr,
     client_email |-> IF o.firebase.some THEN o.firebase.c.client_email ELSE NoStr]

\* the "firebase" section of to_dict
ToDictFirebase(o) ==
    [project_id |-> IF o.firebase.some THEN o.firebase.c.project_id ELSE NoStr,
     client_email |-> IF o.firebase.some THEN o.firebase.c.client_email ELSE NoStr]

\* the "ml" and "system" sections of to_dict: every field of the two configs
ToDictMl(o) == o.ml
ToDictSystem(o) == o.system

ToDict(o) ==
    IF o.attrs # {"firebase", "ml", "system"}
    THEN [raised |-> "AttributeError"]
    ELSE [raised |-> "",
          dict |-> [firebase |-> ToDictFirebase(o),
                    ml |-> ToDictMl(o),
                    system |-> ToDictSystem(o)]]

----------------------------------------------------------------------------
(* The environments that are enumerated *)

FbEnv(path, file, keys, fbvars, pk) ==
    [path |-> path, file |-> file, keys |-> keys, vars |-> fbvars, pk |-> pk]

\* FIREBASE_SERVICE_ACCOUNT_PATH unset, empty, or naming a path that is
\* missing, cannot be read (a directory), holds malformed JSON, holds a JSON
\* value that is not an object, or holds an object with some of the keys
PathCases ==
    {<<"unset", "missing", {}>>, <<"empty", "missing", {}>>}
    \cup {<<"set", f, {}>> : f \in {"missing", "unreadable", "badjson", "nonobject"}}
    \cup {<<"set", "object", ks>> : ks \in SUBSET FbFields}

\* which FIREBASE_* variables are set, and the text of FIREBASE_PRIVATE_KEY
VarCases ==
    {<<vs, <<>>>> : vs \in SUBSET PlainFields}
    \cup {<<vs \cup {"private_key"}, k>> :
            vs \in SUBSET PlainFields, k \in SeqsUpTo(KeyChars, MaxKeyLen)}

FbEnvsAll == {FbEnv(p[1], p[2], p[3], v[1], v[2]) : p \in PathCases, v \in VarCases}

\* three representative credential environments: variables only, a full
\* credential file, and a credential file that does not parse
FbEnvsSmall ==
    {FbEnv("unset", "missing", {}, FbFields, <<"k", "bs", "n">>),
     FbEnv("set", "object", FbFields, {}, <<>>),
     FbEnv("set", "badjson", {}, FbFields, <<"k">>)}

ModeEnvs == {NoStr} \cup {Str(m) : m \in ValidModes \cup {"bogus", ""}}

ThresholdEnvs == {NoText} \cup {Text(s) : s \in SeqsUpTo(FloatChars, MaxLen)}

ThresholdEnvsSmall == {NoText, Text(<<"1", ".", "1">>), Text(<<"n", "a">>)}

Env(mode, threshold, fb) == [mode |-> mode, threshold |-> threshold, fb |-> fb]

NoOut == [op |-> "none"]
NoSc == [op |-> "none", made |-> FALSE]

InitWith(envs) ==
    /\ env \in envs
    /\ instance = 0
    /\ heap = <<>>
    /\ pc = [t \in Threads |-> "idle"]
    /\ self = [t \in Threads |-> 0]
    /\ calls = [t \in Threads |-> 0]
    /\ returned = {}
    /\ initRuns = 0
    /\ log = {}
    /\ out = NoOut
    /\ sc = NoSc

----------------------------------------------------------------------------
(* ConfigManager.__new__ and _initialize, one step per statement *)

\* the test of line 103 dropped: every call constructs
IsNoneAlways(i) == TRUE

\* cls._instance is None
IsNone(i) == i = 0

\* line 103: a caller enters __new__ and tests the class attribute
Test(t) ==
    /\ pc[t] = "idle"
    /\ calls[t] < MaxCalls
    /\ calls' = [calls EXCEPT ![t] = @ + 1]
    /\ pc' = [pc EXCEPT ![t] = IF IsNone(instance) THEN "create" ELSE "ret"]
    /\ UNCHANGED <<env, instance, heap, self, returned, initRuns, log, out, sc>>

\* line 104: allocate an instance and store it in the class attribute
Create(t) ==
    /\ pc[t] = "create"
    /\ heap' = Append(heap, NewObject)
    /\ instance' = Len(heap) + 1
    /\ pc' = [pc EXCEPT ![t] = "call_init"]
    /\ UNCHANGED <<env, self, calls, returned, initRuns, log, out, sc>>

\* line 105: read the class attribute again and invoke _initialize on it
CallInitialize(t) ==
    /\ pc[t] = "call_init"
    /\ self' = [self EXCEPT ![t] = instance]
    /\ initRuns' = initRuns + 1
    /\ pc' = [pc EXCEPT ![t] = "init_firebase"]
    /\ UNCHANGED <<env, instance, heap, calls, returned, log, out, sc>>

\* line 110
InitializeFirebase(t) ==
    /\ pc[t] = "init_firebase"
    /\ LET r == FromEnv(env.fb)
       IN  /\ heap' = [heap EXCEPT ![self[t]] =
                          [@ EXCEPT !.firebase = r.val, !.attrs = @ \cup {"firebase"}]]
           /\ log' = IF r.warned THEN log \cup {"warning:firebase loading failed"} ELSE log
    /\ pc' = [pc EXCEPT ![t] = "init_ml"]
    /\ UNCHANGED <<env, instance, self, calls, returned, initRuns, out, sc>>

\* line 111
InitializeMl(t) ==
    /\ pc[t] = "init_ml"
    /\ heap' = [heap EXCEPT ![self[t]] =
                   [@ EXCEPT !.ml = MLConfig, !.attrs = @ \cup {"ml"}]]
    /\ pc' = [pc EXCEPT ![t] = "init_system"]
    /\ UNCHANGED <<env, instance, self, calls, returned, initRuns, log, out, sc>>

\* line 112
InitializeSystem(t) ==
    /\ pc[t] = "init_system"
    /\ heap' = [heap EXCEPT ![self[t]] =
                   [@ EXCEPT !.system = SystemConfig, !.attrs = @ \cup {"system"}]]
    /\ pc' = [pc EXCEPT ![t] = "override_mode"]
    /\ UNCHANGED <<env, instance, self, calls, returned, initRuns, log, out, sc>>

\* lines 115, 120-122
LoadOverridesMode(t) ==
    /\ pc[t] = "override_mode"
    /\ heap' = [heap EXCEPT ![self[t]] =
                   [@ EXCEPT !.system = OverrideMode(@, env)]]
    /\ pc' = [pc EXCEPT ![t] = "override_threshold"]
    /\ UNCHANGED <<env, instance, self, calls, returned, initRuns, log, out, sc>>

\* lines 125-130, after which _initialize returns
LoadOverridesThreshold(t) ==
    /\ pc[t] = "override_threshold"
    /\ LET r == OverrideThreshold(heap[self[t]].ml, env)
       IN  /\ heap' = [heap EXCEPT ![self[t]] =
                          [@ EXCEPT !.ml = r.ml, !.overridden = TRUE]]
           /\ log' = IF r.warned THEN log \cup {"warning:invalid synergy threshold"} ELSE log
    /\ pc' = [pc EXCEPT ![t] = "ret"]
    /\ UNCHANGED <<env, instance, self, calls, returned, initRuns, out, sc>>

\* line 106: the class attribute is read once more and handed to the caller
\* (object.__init__, which Python runs next, does nothing)
Return(t) ==
    /\ pc[t] = "ret"
    /\ returned' = returned \cup
           {[t |-> t, n |-> calls[t], obj |-> instance, ready |-> Ready(heap[instance])]}
    /\ pc' = [pc EXCEPT ![t] = "idle"]
    /\ UNCHANGED <<env, instance, heap, self, calls, initRuns, log, out, sc>>

\* the steps of a call other than its first
Proceed(t) ==
    \/ Create(t)
    \/ CallInitialize(t)
    \/ InitializeFirebase(t)
    \/ InitializeMl(t)
    \/ InitializeSystem(t)
    \/ LoadOverridesMode(t)
    \/ LoadOverridesThreshold(t)
    \/ Return(t)

\* a call that starts only when no other call is in progress
TestAlone(t) ==
    /\ \A u \in Threads \ {t} : pc[u] = "idle"
    /\ Test(t)

----------------------------------------------------------------------------
(* What the holders of the instance do with it *)

\* the objects some finished call has handed out
Held == {r.obj : r \in returned}

\* config.validate()
ValidateCall ==
    \E o \in Held :
        /\ out' = [op |-> "validate", obj |-> o, res |-> Validate(heap[o])]
        /\ log' = log \cup Validate(heap[o]).logs
        /\ UNCHANGED <<env, instance, heap, pc, self, calls, returned, initRuns, sc>>

\* config.to_dict()
ToDictCall ==
    \E o \in Held :
        /\ out' = [op |-> "to_dict", obj |-> o, res |-> ToDict(heap[o])]
        /\ UNCHANGED <<env, instance, heap, pc, self, calls, returned, initRuns, log, sc>>

\* the values a holder assigns to the fields directly
AssignedThresholds == {Num(1, 2), Num(3, 2), NoneNum}
AssignedCounts == {Num(0, 1), NoneNum}
AssignedModes == {"bogus", "conservative"}
AssignedRates == {Num(3, 2), NoneNum}
AssignedCreds ==
    {NoCreds,
     SomeCreds(Creds(Str("p"), Str("kid"), Text(<<"k", "nl">>), Str("e"), Str("c")))}

\* a holder assigns a field of the object; the assignment has no outcome
Assign(o, new) ==
    /\ o \in Held
    /\ Ready(heap[o])
    /\ new # heap[o]
    /\ heap' = [heap EXCEPT ![o] = new]
    /\ out' = NoOut
    /\ UNCHANGED <<env, instance, pc, self, calls, returned, initRuns, log, sc>>

\* config.ml.synergy_threshold = v
SetSynergyThreshold ==
    \E o \in Held, v \in AssignedThresholds :
        Assign(o, [heap[o] EXCEPT !.ml.synergy_threshold = v])

\* config.ml.min_samples_per_domain = v
SetMinSamples ==
    \E o \in Held, v \in AssignedCounts :
        Assign(o, [heap[o] EXCEPT !.ml.min_samples_per_domain = v])

\* config.ml.embedding_dimension = v
SetEmbeddingDimension ==
    \E o \in Held, v \in AssignedCounts :
        Assign(o, [heap[o] EXCEPT !.ml.embedding_dimension = v])

\* config.system.execution_mode = v
SetExecutionMode ==
    \E o \in Held, v \in AssignedModes :
        Assign(o, [heap[o] EXCEPT !.system.execution_mode = v])

\* config.system.mutation_rate = v
SetMutationRate ==
    \E o \in Held, v \in AssignedRates :
        Assign(o, [heap[o] EXCEPT !.system.mutation_rate = v])

\* config.firebase = v
SetFirebase ==
    \E o \in Held, v \in AssignedCreds :
        Assign(o, [heap[o] EXCEPT !.firebase = v])

----------------------------------------------------------------------------
(* A SystemConfig built and checked on its own *)

ConstructModes == ValidModes \cup {"bogus", ""}
ConstructRates == {Num(0, 1), Num(1, 10), Num(1, 2), Num(1, 1), Num(3, 2), Num(-1, 10), NaN}

\* SystemConfig(execution_mode=m, mutation_rate=r)
Construct ==
    \E m \in ConstructModes, r \in ConstructRates :
        /\ sc' = [op |-> "new", made |-> NewSystemConfig(m, r).made,
                  cfg |-> NewSystemConfig(m, r).cfg,
                  outcome |-> NewSystemConfig(m, r).outcome,
                  before |-> SystemFields(m, r)]
        /\ UNCHANGED <<env, instance, heap, pc, self, calls, returned, initRuns, log, out>>

\* s.execution_mode = m on an object that exists
SetScMode ==
    \E m \in ConstructModes :
        /\ sc.made
        /\ sc' = [sc EXCEPT !.op = "set", !.cfg.execution_mode = m]
        /\ UNCHANGED <<env, instance, heap, pc, self, calls, returned, initRuns, log, out>>

\* s.mutation_rate = r on an object that exists
SetScRate ==
    \E r \in ConstructRates :
        /\ sc.made
        /\ sc' = [sc EXCEPT !.op = "set", !.cfg.mutation_rate = r]
        /\ UNCHANGED <<env, instance, heap, pc, self, calls, returned, initRuns, log, out>>

\* s.__post_init__() invoked again, as validate does on line 145; before is
\* the object's fields when the call was made
Revalidate ==
    /\ sc.made
    /\ sc' = [sc EXCEPT !.op = "post_init",
                        !.before = sc.cfg,
                        !.cfg = PostInit(sc.cfg).cfg,
                        !.outcome = PostInit(sc.cfg).outcome]
    /\ UNCHANGED <<env, instance, heap, pc, self, calls, returned, initRuns, log, out>>

----------------------------------------------------------------------------
(* FirebaseConfig.from_env() called on its own *)

FromEnvCall ==
    /\ out' = [op |-> "from_env", res |-> FromEnv(env.fb)]
    /\ UNCHANGED <<env, instance, heap, pc, self, calls, returned, initRuns, log, sc>>

----------------------------------------------------------------------------
(* Specifications *)

EnvsSmall ==
    {Env(m, th, fb) : m \in {NoStr, Str("aggressive")}, th \in ThresholdEnvsSmall,
                      fb \in FbEnvsSmall}

\* one caller, every value of the two override variables
Init == InitWith({Env(m, th, fb) : m \in ModeEnvs, th \in ThresholdEnvs, fb \in FbEnvsSmall})

Next ==
    \/ TestAlone("t1")
    \/ Proceed("t1")
    \/ ValidateCall

Spec == Init /\ [][Next]_vars

\* callers whose calls do not overlap, and holders that assign fields
InitSeq == InitWith(EnvsSmall)

NextSeq ==
    \/ \E t \in Threads : TestAlone(t) \/ Proceed(t)
    \/ SetExecutionMode
    \/ SetSynergyThreshold

SpecSeq == InitSeq /\ [][NextSeq]_vars

\* callers whose calls interleave statement by statement
NextConc == \E t \in Threads : Test(t) \/ Proceed(t)

SpecConc == InitSeq /\ [][NextConc]_vars

\* one instance, assigned to and inspected by its holder
NextMut ==
    \/ TestAlone("t1")
    \/ Proceed("t1")
    \/ SetSynergyThreshold
    \/ SetMinSamples
    \/ SetEmbeddingDimension
    \/ SetExecutionMode
    \/ SetMutationRate
    \/ SetFirebase
    \/ ValidateCall
    \/ ToDictCall

InitMut ==
    InitWith({Env(NoStr, th, fb) : th \in {NoText, Text(<<"1", ".", "1">>)}, fb \in FbEnvsSmall})

SpecMut == InitMut /\ [][NextMut]_vars

\* a SystemConfig on its own
NextSys == Construct \/ SetScMode \/ SetScRate \/ Revalidate

InitSys == InitWith({Env(NoStr, NoText, FbEnv("unset", "missing", {}, {}, <<>>))})

SpecSys == InitSys /\ [][NextSys]_vars

\* the credential loader on its own, every credential environment
InitFirebase == InitWith({Env(NoStr, NoText, fb) : fb \in FbEnvsAll})

NextFirebase == FromEnvCall

SpecFirebase == InitFirebase /\ [][NextFirebase]_vars

----------------------------------------------------------------------------
(* Properties *)

\* a number within [0, 1], stated on the rational itself
InUnitInterval(x) == x.kind = "num" /\ 0 <= x.num /\ x.num <= x.den
Positive(x) == x.kind = "num" /\ x.num > 0

\* the same Python float, NaN included
SameFloat(a, b) ==
    \/ a.kind = "nan" /\ b.kind = "nan"
    \/ NumEq(a, b)

ThresholdGiven == env.threshold.some /\ env.threshold.s # <<>>
ThresholdParses == ThresholdGiven /\ ParseFloat(env.threshold.s).ok

Initialized == {i \in 1..Len(heap) : Ready(heap[i])}

\* C1 (state part): all finished calls returned one object, and _initialize
\* has run at most once, exactly once as soon as a call has finished
C1_OneInstance ==
    /\ Cardinality(Held) <= 1
    /\ initRuns <= 1
    /\ returned # {} => initRuns = 1 /\ Held = {instance}

\* C1 (step part): the class attribute never changes once set, and no step of
\* a call made after the first one finished touches the object or re-enters
\* _initialize
C1_NoReinit ==
    /\ instance # 0 => instance' = instance
    /\ (returned # {} /\ pc' # pc) => (heap' = heap /\ initRuns' = initRuns)

\* C1: for non-overlapping ConfigManager() calls, every call returns the
\* same instance, the initialization sequence runs exactly once, on the first
\* call, no later call replaces the sub-configs, and the manager never goes
\* back to the uninitialized state
C1_InitializedOnce == []C1_OneInstance /\ [][C1_NoReinit]_vars

\* a second caller's call is finishing after a holder forced the mode
C1_Witness ==
    /\ \E r \in returned : r.t = "t1"
    /\ pc["t2"] = "ret"
    /\ heap[instance].system.execution_mode = "bogus"

\* C2: when two callers invoke ConfigManager() concurrently while no
\* instance exists, both calls return the identical instance and _initialize
\* runs only once
C2_ConcurrentSameInstance ==
    /\ \A r1, r2 \in returned : r1.obj = r2.obj
    /\ initRuns <= 1

\* C3: whenever a call returns an instance to a caller, that instance has
\* its firebase, ml and system attributes set and the override step has
\* completed
C3_NeverPartial == \A r \in returned : r.ready

\* C4: validate() never propagates an exception and returns true exactly
\* when the ML validity predicate and the system validation both hold;
\* absent credentials never change the result and a forced invalid
\* execution mode yields false
C4_ValidateTotal ==
    out.op = "validate" =>
        LET o == heap[out.obj]
            mlOk == /\ InUnitInterval(o.ml.synergy_threshold)
                    /\ Positive(o.ml.min_samples_per_domain)
                    /\ Positive(o.ml.embedding_dimension)
            sysOk == /\ o.system.execution_mode \in {"adaptive", "conservative", "aggressive"}
                     /\ InUnitInterval(o.system.mutation_rate)
        IN  /\ out.res.raised = ""
            /\ out.res.val <=> (mlOk /\ sysOk)
            /\ \A c \in AssignedCreds \cup {o.firebase} :
                   Validate([o EXCEPT !.firebase = c]).val = out.res.val
            /\ o.system.execution_mode = "bogus" => ~out.res.val

\* validate() answered false for an instance without credentials whose mode
\* was forced invalid
C4_Witness ==
    /\ out.op = "validate"
    /\ ~heap[out.obj].firebase.some
    /\ heap[out.obj].system.execution_mode = "bogus"
    /\ ~out.res.val

\* C5: from_env never raises; a credential file that parses as an object
\* gives the five fields from the file (None for a missing key) whatever the
\* FIREBASE_* variables hold; a file that exists but cannot be read or parsed
\* gives None; an unset, empty or dangling path gives credentials built from
\* the variables, "" for each unset one; None only in the exception case
C5_FromEnvCases ==
    out.op = "from_env" =>
        LET e == env.fb
            r == out.res
            exists == e.path = "set" /\ e.file # "missing"
        IN  /\ ~r.raised
            /\ (exists /\ e.file = "object") =>
                   /\ r.val.some
                   /\ \A k \in PlainFields :
                          r.val.c[k] = IF k \in e.keys THEN Str("file:" \o k) ELSE NoStr
                   /\ r.val.c.private_key =
                          IF "private_key" \in e.keys THEN Text(FileKey) ELSE NoText
            /\ (exists /\ e.file # "object") => ~r.val.some
            /\ ~exists =>
                   /\ r.val.some
                   /\ \A k \in PlainFields :
                          r.val.c[k] = IF k \in e.vars THEN Str("env:" \o k) ELSE Str("")
                   /\ "private_key" \notin e.vars => r.val.c.private_key = Text(<<>>)
                   /\ r.val.c.private_key.some
            /\ ~r.val.some => (exists /\ e.file # "object" /\ r.warned)

\* a partial credential file was loaded while FIREBASE_* variables were set
C5_Witness ==
    /\ out.op = "from_env"
    /\ env.fb.path = "set"
    /\ env.fb.file = "object"
    /\ env.fb.keys = {"project_id"}
    /\ env.fb.vars = FbFields
    /\ out.res.val.some

\* C6: after initialization system.execution_mode is the value of
\* ACDSYN_EXECUTION_MODE if that is adaptive, conservative or aggressive and
\* "adaptive" otherwise, so it is always one of the three
C6_ModeOverride ==
    \A i \in Initialized :
        /\ heap[i].system.execution_mode =
               IF env.mode.some /\ env.mode.s \in {"adaptive", "conservative", "aggressive"}
               THEN env.mode.s ELSE "adaptive"
        /\ heap[i].system.execution_mode \in {"adaptive", "conservative", "aggressive"}

\* initialization finished with ACDSYN_EXECUTION_MODE=bogus
C6_Witness == Initialized # {} /\ env.mode = Str("bogus")

\* C7: after initialization ml.synergy_threshold is the parsed number when
\* ACDSYN_SYNERGY_THRESHOLD parses as a float and 0.7 otherwise; a non-empty
\* value that does not parse produces a warning
C7_ThresholdOverride ==
    \A i \in Initialized :
        /\ ThresholdParses =>
               SameFloat(heap[i].ml.synergy_threshold, ParseFloat(env.threshold.s).val)
        /\ ~ThresholdParses => heap[i].ml.synergy_threshold = Num(7, 10)
        /\ (ThresholdGiven /\ ~ThresholdParses) =>
               "warning:invalid synergy threshold" \in log
        /\ env.threshold = Text(<<"1", ".", "1">>) =>
               heap[i].ml.synergy_threshold = Num(11, 10)

\* initialization finished with an unparsable ACDSYN_SYNERGY_THRESHOLD
C7_Witness ==
    /\ Initialized # {}
    /\ env.threshold = Text(<<"n", "a">>)
    /\ "warning:invalid synergy threshold" \in log

\* the fields for which __post_init__ must fail
BadSystem(c) ==
    \/ c.execution_mode \notin {"adaptive", "conservative", "aggressive"}
    \/ ~InUnitInterval(c.mutation_rate)

\* C8: constructing a SystemConfig, and re-invoking __post_init__ later,
\* fails with ValueError exactly when execution_mode is outside the three
\* modes or mutation_rate is outside [0,1] and succeeds otherwise; the
\* outcome depends on the field values alone and no field changes
C8_PostInit ==
    sc.op \in {"new", "post_init"} =>
        /\ sc.outcome = (IF BadSystem(sc.before) THEN "ValueError" ELSE "ok")
        /\ sc.cfg = sc.before
        /\ sc.op = "new" => (sc.made <=> ~BadSystem(sc.before))

\* __post_init__ was re-invoked on an object whose rate had been set to 1.5
C8_Witness ==
    /\ sc.op = "post_init"
    /\ sc.before.mutation_rate = Num(3, 2)
    /\ sc.outcome = "ValueError"

\* the instance with other secrets in its credentials
WithSecrets(o, key, kid) ==
    IF o.firebase.some
    THEN [o EXCEPT !.firebase.c.private_key = key, !.firebase.c.private_key_id = kid]
    ELSE o

OtherKeys == {NoText, Text(<<>>), Text(<<"k">>), Text(FileKey)}
OtherKeyIds == {NoStr, Str(""), Str("kid"), Str("other")}

\* C9: to_dict() does not depend on firebase.private_key and
\* firebase.private_key_id, its firebase section holds project_id and
\* client_email only, and with absent credentials both are None
C9_NoSecrets ==
    out.op = "to_dict" =>
        LET o == heap[out.obj]
        IN  /\ out.res.raised = ""
            /\ DOMAIN out.res.dict.firebase = {"project_id", "client_email"}
            /\ \A key \in OtherKeys, kid \in OtherKeyIds :
                   ToDict(WithSecrets(o, key, kid)) = out.res
            /\ ~o.firebase.some =>
                   out.res.dict.firebase = [project_id |-> NoStr, client_email |-> NoStr]
            /\ o.firebase.some =>
                   out.res.dict.firebase = [project_id |-> o.firebase.c.project_id,
                                            client_email |-> o.firebase.c.client_email]

\* to_dict() was called on an instance holding a private key
C9_Witness ==
    /\ out.op = "to_dict"
    /\ heap[out.obj].firebase.some
    /\ heap[out.obj].firebase.c.private_key = Text(<<"k", "nl">>)

\* C10: right after initialization the system part of validation cannot
\* fail, and validate() is false exactly when ACDSYN_SYNERGY_THRESHOLD
\* parsed as a float outside [0,1]
C10_ValidateAfterInit ==
    out.op = "validate" =>
        LET o == heap[out.obj]
        IN  /\ o.system.execution_mode \in {"adaptive", "conservative", "aggressive"}
            /\ o.system.mutation_rate = Num(1, 10)
            /\ ~out.res.val <=>
                   (ThresholdParses /\ ~InUnitInterval(ParseFloat(env.threshold.s).val))
            /\ env.threshold \in {Text(<<"1", ".", "1">>), Text(<<"-", "1">>), Text(<<"n", "a", "n">>)}
                   => ~out.res.val
            /\ env.threshold \in {NoText, Text(<<>>), Text(<<"n", "a">>), Text(<<".", "1">>), Text(<<"1">>)}
                   => out.res.val

\* validate() answered false after ACDSYN_SYNERGY_THRESHOLD=1.1 was applied,
\* with credentials absent
C10_Witness ==
    /\ out.op = "validate"
    /\ env.threshold = Text(<<"1", ".", "1">>)
    /\ ~heap[out.obj].firebase.some
    /\ ~out.res.val

=============================================================================
